---- MODULE Spec2Model ----
(***************************************************************************)
(* wbroker: three periodic threads (measurement, display, send) sharing    *)
(* one dict `data` and one module-level lock, started and joined by        *)
(* control_thread, stopped through a threading.Event set by the SIGINT     *)
(* handler.  Two programs are modelled: src/src/wbroker/app.py ("wbroker") *)
(* and the older src/app.py ("app"); `program` selects which one runs.     *)
(***************************************************************************)
EXTENDS Integers, Sequences, FiniteSets, TLC

VARIABLES
    run,          \* what this run explores: "data" (sensor values) or "signal" (cancellation)
    program,      \* which of the two source files is running
    e,            \* threading.Event shared by all threads
    data,         \* the shared dict (empty function = {})
    lock,         \* holder of the module-level threading.Lock, or "free"
    cpc,          \* control_thread / main position
    mpc,          \* measurement_thread position
    sensor_data,  \* Bme280Sensor.data (None = empty function)
    dpc,          \* display_thread position
    dloc,         \* display_thread locals of the current tick
    dbus,         \* TRUE while display_thread is inside the with block of a display call
    spc,          \* send_data_thread position
    point,        \* the Point being built by InfluxWriter.write
    stored,       \* history: the dicts that data.update has stored so far
    exiting,      \* number of "Exiting..." lines logged by the SIGINT handler
    units         \* history: per running thread, the ticks and sleeps begun while e was set

vars ==
    <<run, program, e, data, lock, cpc, mpc, sensor_data, dpc, dloc, dbus, spc, point, stored,
      exiting, units>>

\* number of distinct readings the sensor can return
MaxReading == 2

\* number of SIGINTs delivered to the process
MaxSigint == 2

Threads == {"measurement", "display", "send"}

\* The values read and the cancellation do not influence each other (the
\* threads branch on the emptiness of data and on e only), so a run explores
\* one of the two: a "data" run takes every reading and no SIGINT, a
\* "signal" run takes one reading, every SIGINT and counts the units of
\* activity begun after the signal.
Runs == {"data", "signal"}

Programs == {"wbroker", "app"}

\* the empty dict / None
Empty == <<>>

\* the i-th value of bme280.read_all()
Reading(i) == [temperature |-> 20 + i, humidity |-> 40 + i, pressure |-> 1000 + i]

\* what bme280.read_all() can return
Readings == {Reading(i) : i \in 1..MaxReading}

\* what bme280.read_all() can return in this run
SensorRange ==
    IF run = "data" THEN Readings
    ELSE {Reading(1)}

\* number of SIGINTs delivered in this run
SigintLimit == IF run = "data" THEN 0 ELSE MaxSigint

\* insertion order of the keys of the dict built by get_dict
KeyOrder == <<"temperature", "humidity", "pressure">>

Terminated == {"done", "dead"}

\* mutant: get_dict leaves out the pressure
get_dict_no_pressure(d) ==
    [temperature |-> d.temperature, humidity |-> d.humidity]

\* Bme280Sensor.get_dict
get_dict(d) ==
    [temperature |-> d.temperature, humidity |-> d.humidity, pressure |-> d.pressure]

\* calc_tdi, in units of 1/10000, rounded to an integer as {tdi:4.0f} prints it
calc_tdi(temperature, humidity) ==
    (8100 * temperature + humidity * (99 * temperature - 1430) + 463000 + 5000) \div 10000

\* thread t begins a tick or a sleep: counted when e is already set
Started(t) == IF e /\ run = "signal" THEN [units EXCEPT ![t] = @ + 1] ELSE units

\* thread t has ended: its count is dropped
Ended(t) == [units EXCEPT ![t] = 0]

NoLocals == [t1 |-> 0, h1 |-> 0, t2 |-> 0, h2 |-> 0, p2 |-> 0, text |-> <<>>, i |-> 0]

Init ==
    /\ run \in Runs
    /\ program \in Programs
    /\ e = FALSE
    /\ data = Empty
    /\ lock = "free"
    /\ cpc = "register"
    /\ mpc = "init"
    /\ sensor_data = Empty
    /\ dpc = "init"
    /\ dloc = NoLocals
    /\ dbus = FALSE
    /\ spc = "init"
    /\ point = Empty
    /\ stored = {}
    /\ exiting = 0
    /\ units = [t \in Threads |-> 0]

----------------------------------------------------------------------------
(* control_thread / main *)

\* signal.signal(signal.SIGINT, handler)
control_register ==
    /\ cpc = "register"
    /\ cpc' = "start_m"
    /\ UNCHANGED <<run, program, e, data, lock, mpc, sensor_data, dpc, dloc, dbus, spc, point, stored, exiting, units>>

\* for t in threads: t.start()
control_start_measurement ==
    /\ cpc = "start_m"
    /\ cpc' = "start_d"
    /\ mpc' = "ctor"
    /\ UNCHANGED <<run, program, e, data, lock, sensor_data, dpc, dloc, dbus, spc, point, stored, exiting, units>>

control_start_display ==
    /\ cpc = "start_d"
    /\ cpc' = "start_s"
    /\ dpc' = "setup_clear"
    /\ UNCHANGED <<run, program, e, data, lock, mpc, sensor_data, dloc, dbus, spc, point, stored, exiting, units>>

control_start_send ==
    /\ cpc = "start_s"
    /\ cpc' = "join_m"
    /\ spc' = "ctor"
    /\ UNCHANGED <<run, program, e, data, lock, mpc, sensor_data, dpc, dloc, dbus, point, stored, exiting, units>>

\* for t in threads: t.join()
control_join_measurement ==
    /\ cpc = "join_m"
    /\ mpc \in Terminated
    /\ cpc' = "join_d"
    /\ UNCHANGED <<run, program, e, data, lock, mpc, sensor_data, dpc, dloc, dbus, spc, point, stored, exiting, units>>

\* mutant: the join of display_thread returns without waiting for it
control_join_display_no_wait ==
    /\ cpc = "join_d"
    /\ cpc' = "join_s"
    /\ UNCHANGED <<run, program, e, data, lock, mpc, sensor_data, dpc, dloc, dbus, spc, point, stored, exiting, units>>

control_join_display ==
    /\ cpc = "join_d"
    /\ dpc \in Terminated
    /\ cpc' = "join_s"
    /\ UNCHANGED <<run, program, e, data, lock, mpc, sensor_data, dpc, dloc, dbus, spc, point, stored, exiting, units>>

control_join_send ==
    /\ cpc = "join_s"
    /\ spc \in Terminated
    /\ cpc' = "returned"
    /\ UNCHANGED <<run, program, e, data, lock, mpc, sensor_data, dpc, dloc, dbus, spc, point, stored, exiting, units>>

control_thread ==
    \/ control_register
    \/ control_start_measurement
    \/ control_start_display
    \/ control_start_send
    \/ control_join_measurement
    \/ control_join_display
    \/ control_join_send

\* mutant: the handler flips the event instead of setting it
signal_sigint_handler_toggle ==
    /\ cpc \notin {"register", "returned"}
    /\ exiting < SigintLimit
    /\ e' = ~e
    /\ exiting' = exiting + 1
    /\ UNCHANGED <<run, program, data, lock, cpc, mpc, sensor_data, dpc, dloc, dbus, spc, point, stored, units>>

\* SIGINT delivered to the main thread once the handler is installed:
\* e.set(); logging.info("Exiting...")
signal_sigint_handler ==
    /\ cpc \notin {"register", "returned"}
    /\ exiting < SigintLimit
    /\ e' = TRUE
    /\ exiting' = exiting + 1
    /\ UNCHANGED <<run, program, data, lock, cpc, mpc, sensor_data, dpc, dloc, dbus, spc, point, stored, units>>

----------------------------------------------------------------------------
(* measurement_thread *)

\* sensor = Bme280Sensor(); the thread then enters sensor.setup()
measurement_ctor ==
    /\ mpc = "ctor"
    /\ mpc' = "setup"
    /\ UNCHANGED <<run, program, e, data, lock, cpc, sensor_data, dpc, dloc, dbus, spc, point, stored, exiting, units>>

\* sensor.setup(): bme280.setup() returns
measurement_setup ==
    /\ mpc = "setup"
    /\ mpc' = "loop"
    /\ UNCHANGED <<run, program, e, data, lock, cpc, sensor_data, dpc, dloc, dbus, spc, point, stored, exiting, units>>

\* bme280.setup() raises: the exception ends the thread
measurement_setup_fault ==
    /\ mpc = "setup"
    /\ mpc' = "dead"
    /\ UNCHANGED <<run, program, e, data, lock, cpc, sensor_data, dpc, dloc, dbus, spc, point, stored, exiting, units>>

\* while not e.is_set()  /  if e.is_set(): break
measurement_loop ==
    /\ mpc = "loop"
    /\ mpc' = IF e THEN "done" ELSE "measure"
    /\ units' = IF mpc' \in Terminated THEN Ended("measurement") ELSE units
    /\ UNCHANGED <<run, program, e, data, lock, cpc, sensor_data, dpc, dloc, dbus, spc, point, stored, exiting>>

\* mutant: measure enters read_all without taking the lock
measure_acquire_no_lock ==
    /\ mpc = "measure"
    /\ mpc' = "read_all"
    /\ units' = Started("measurement")
    /\ UNCHANGED <<run, program, e, data, lock, cpc, sensor_data, dpc, dloc, dbus, spc, point, stored, exiting>>

\* Bme280Sensor.measure: with lock (acquire)
measure_acquire ==
    /\ mpc = "measure"
    /\ lock = "free"
    /\ lock' = "measurement"
    /\ mpc' = "read_all"
    /\ units' = Started("measurement")
    /\ UNCHANGED <<run, program, e, data, cpc, sensor_data, dpc, dloc, dbus, spc, point, stored, exiting>>

\* mutant: read_all returns and measure keeps the lock
measure_keeps_lock ==
    /\ mpc = "read_all"
    /\ \E r \in SensorRange : sensor_data' = r
    /\ mpc' = "update"
    /\ UNCHANGED <<run, program, e, data, lock, cpc, dpc, dloc, dbus, spc, point, stored, exiting, units>>

\* self.data = bme280.read_all() returns; the with block releases the lock
measure ==
    /\ mpc = "read_all"
    /\ \E r \in SensorRange : sensor_data' = r
    /\ lock' = "free"
    /\ mpc' = "update"
    /\ UNCHANGED <<run, program, e, data, cpc, dpc, dloc, dbus, spc, point, stored, exiting, units>>

\* mutant: a fault of read_all ends the thread with the lock still held
measure_fault_keeps_lock ==
    /\ mpc = "read_all"
    /\ mpc' = "dead"
    /\ units' = Ended("measurement")
    /\ UNCHANGED <<run, program, e, data, lock, cpc, sensor_data, dpc, dloc, dbus, spc, point, stored, exiting>>

\* bme280.read_all() raises: the with block releases the lock, the thread ends
measure_fault ==
    /\ mpc = "read_all"
    /\ lock' = "free"
    /\ mpc' = "dead"
    /\ units' = Ended("measurement")
    /\ UNCHANGED <<run, program, e, data, cpc, sensor_data, dpc, dloc, dbus, spc, point, stored, exiting>>

\* with lock (acquire) before data.update
update_acquire ==
    /\ mpc = "update"
    /\ lock = "free"
    /\ lock' = "measurement"
    /\ mpc' = "data_update"
    /\ UNCHANGED <<run, program, e, data, cpc, sensor_data, dpc, dloc, dbus, spc, point, stored, exiting, units>>

\* mutant: the loop is left on cancellation before the lock is released
data_update_break_in_lock ==
    /\ mpc = "data_update"
    /\ data' = get_dict(sensor_data)
    /\ stored' = stored \cup {get_dict(sensor_data)}
    /\ IF e
         THEN /\ mpc' = "done"
              /\ units' = Ended("measurement")
              /\ UNCHANGED lock
         ELSE /\ mpc' = IF program = "wbroker" THEN "recheck" ELSE "sleep"
              /\ lock' = "free"
              /\ UNCHANGED units
    /\ UNCHANGED <<run, program, e, cpc, sensor_data, dpc, dloc, dbus, spc, point, exiting>>

\* data.update(sensor.get_dict()); the with block releases the lock
data_update ==
    /\ mpc = "data_update"
    /\ data' = get_dict(sensor_data)
    /\ stored' = stored \cup {get_dict(sensor_data)}
    /\ lock' = "free"
    /\ mpc' = IF program = "wbroker" THEN "recheck" ELSE "sleep"
    /\ UNCHANGED <<run, program, e, cpc, sensor_data, dpc, dloc, dbus, spc, point, exiting, units>>

\* mutant: the check before the sleep never leaves the loop
measurement_recheck_never_breaks ==
    /\ mpc = "recheck"
    /\ mpc' = "sleep"
    /\ UNCHANGED <<run, program, e, data, lock, cpc, sensor_data, dpc, dloc, dbus, spc, point, stored, exiting, units>>

\* if e.is_set(): break   (src/src/wbroker/app.py only)
measurement_recheck ==
    /\ mpc = "recheck"
    /\ mpc' = IF e THEN "done" ELSE "sleep"
    /\ units' = IF mpc' \in Terminated THEN Ended("measurement") ELSE units
    /\ UNCHANGED <<run, program, e, data, lock, cpc, sensor_data, dpc, dloc, dbus, spc, point, stored, exiting>>

\* time.sleep(1) returns
measurement_sleep ==
    /\ mpc = "sleep"
    /\ mpc' = "loop"
    /\ units' = Started("measurement")
    /\ UNCHANGED <<run, program, e, data, lock, cpc, sensor_data, dpc, dloc, dbus, spc, point, stored, exiting>>

measurement_thread ==
    \/ measurement_ctor
    \/ measurement_setup
    \/ measurement_setup_fault
    \/ measurement_loop
    \/ measure_acquire
    \/ measure
    \/ measure_fault
    \/ update_acquire
    \/ data_update
    \/ measurement_recheck
    \/ measurement_sleep

----------------------------------------------------------------------------
(* SO1602ADisplay and display_thread *)

\* one formatted field of a display line: the digits of v followed by s
Fmt(v, s) == [s |-> s, v |-> v]

\* datetime.now().strftime("%Y/%m/%d %H:%M")
Line1 == <<Fmt(0, "YYYY/mm/dd HH:MM")>>

\* "--.-C --.-% ----"
Placeholder == <<Fmt(0, "--.-C"), Fmt(0, "--.-%"), Fmt(0, "----")>>

\* f"{data['temperature']:2.1f}C {data['humidity']:2.1f}% {tdi:4.0f}"
Line2(l) == <<Fmt(l.t2, "C"), Fmt(l.h2, "%"), Fmt(calc_tdi(l.t1, l.h1), "")>>

\* src/app.py: f"{data['temperature']:2.0f}C {data['humidity']:2.0f}% {data['pressure']:4.0f}hPa"
AppLine(l) == <<Fmt(l.t2, "C"), Fmt(l.h2, "%"), Fmt(l.p2, "hPa")>>

\* the steps of display_thread that are one __send_command call
CommandSteps == {"setup_clear", "setup_on", "first_line", "second_line"}

\* the steps of display_thread that are one put / __send_data call
PutSteps == {"put_line1", "put_line2"}

\* the statement that follows a finished display call
AfterDisplayCall(step) ==
    CASE step = "setup_clear" -> "setup_on"
      [] step = "setup_on" -> "loop"
      [] step = "first_line" -> IF program = "wbroker" THEN "put_line1" ELSE "read_t2"
      [] step = "put_line1" -> "second_line"
      [] step = "second_line" -> "test_data"
      [] step = "put_line2" -> IF program = "wbroker" THEN "recheck" ELSE "sleep"

\* mutant: a display call enters write_byte_data without taking the lock
display_acquire_no_lock ==
    /\ dpc \in CommandSteps \cup PutSteps
    /\ ~dbus
    /\ dbus' = TRUE
    /\ units' = IF program = "wbroker" /\ dpc = "first_line" THEN Started("display") ELSE units
    /\ UNCHANGED <<run, program, e, data, lock, cpc, mpc, sensor_data, dpc, dloc, spc, point, stored, exiting>>

\* __send_command / __send_data: with lock (acquire)
display_acquire ==
    /\ dpc \in CommandSteps \cup PutSteps
    /\ lock = "free"
    /\ ~dbus
    /\ lock' = "display"
    /\ dbus' = TRUE
    /\ units' = IF program = "wbroker" /\ dpc = "first_line" THEN Started("display") ELSE units
    /\ UNCHANGED <<run, program, e, data, cpc, mpc, sensor_data, dpc, dloc, spc, point, stored, exiting>>

\* __send_command: i2c.write_byte_data(addr, 0x00, data) returns, lock released
send_command ==
    /\ dpc \in CommandSteps
    /\ dbus
    /\ lock' = "free"
    /\ dbus' = FALSE
    /\ dpc' = AfterDisplayCall(dpc)
    /\ dloc' = IF dpc' = "put_line1" THEN [dloc EXCEPT !.text = Line1] ELSE dloc
    /\ UNCHANGED <<run, program, e, data, cpc, mpc, sensor_data, spc, point, stored, exiting, units>>

\* __send_data: one i2c.write_byte_data(addr, 0x40, i) of the loop returns;
\* after the last one the with block releases the lock
send_data ==
    /\ dpc \in PutSteps
    /\ dbus
    /\ dloc.i < Len(dloc.text)
    /\ IF dloc.i + 1 < Len(dloc.text)
         THEN /\ dloc' = [dloc EXCEPT !.i = @ + 1]
              /\ UNCHANGED <<lock, dpc, dbus>>
         ELSE /\ lock' = "free"
              /\ dbus' = FALSE
              /\ dpc' = AfterDisplayCall(dpc)
              /\ dloc' = NoLocals
    /\ UNCHANGED <<run, program, e, data, cpc, mpc, sensor_data, spc, point, stored, exiting, units>>

\* mutant: a fault of write_byte_data ends the thread with the lock still held
display_fault_keeps_lock ==
    /\ dpc \in CommandSteps \cup PutSteps
    /\ dbus
    /\ dbus' = FALSE
    /\ dpc' = "dead"
    /\ dloc' = NoLocals
    /\ units' = Ended("display")
    /\ UNCHANGED <<run, program, e, data, lock, cpc, mpc, sensor_data, spc, point, stored, exiting>>

\* i2c.write_byte_data raises inside __send_command / __send_data: the with
\* block releases the lock and the exception ends display_thread
display_fault ==
    /\ dpc \in CommandSteps \cup PutSteps
    /\ dbus
    /\ lock' = "free"
    /\ dbus' = FALSE
    /\ dpc' = "dead"
    /\ dloc' = NoLocals
    /\ units' = Ended("display")
    /\ UNCHANGED <<run, program, e, data, cpc, mpc, sensor_data, spc, point, stored, exiting>>

\* while not e.is_set()  /  if e.is_set(): break
display_loop ==
    /\ dpc = "loop"
    /\ dpc' = IF e THEN "done"
              ELSE IF program = "wbroker" THEN "first_line" ELSE "test_data"
    /\ units' = IF dpc' \in Terminated THEN Ended("display") ELSE units
    /\ UNCHANGED <<run, program, e, data, lock, cpc, mpc, sensor_data, dloc, dbus, spc, point, stored, exiting>>

\* mutant: the else branch formats the (unset) values instead of the placeholder
display_test_data_no_placeholder ==
    /\ dpc = "test_data"
    /\ IF data # Empty
         THEN /\ dpc' = IF program = "wbroker" THEN "read_t1" ELSE "first_line"
              /\ UNCHANGED dloc
         ELSE IF program = "wbroker"
                THEN /\ dpc' = "put_line2"
                     /\ dloc' = [dloc EXCEPT !.text = Line2(dloc)]
                ELSE /\ dpc' = "sleep"
                     /\ UNCHANGED dloc
    /\ units' = IF program = "app" THEN Started("display") ELSE units
    /\ UNCHANGED <<run, program, e, data, lock, cpc, mpc, sensor_data, dbus, spc, point, stored, exiting>>

\* if data:
display_test_data ==
    /\ dpc = "test_data"
    /\ IF data # Empty
         THEN /\ dpc' = IF program = "wbroker" THEN "read_t1" ELSE "first_line"
              /\ UNCHANGED dloc
         ELSE IF program = "wbroker"
                THEN /\ dpc' = "put_line2"
                     /\ dloc' = [dloc EXCEPT !.text = Placeholder]
                ELSE /\ dpc' = "sleep"
                     /\ UNCHANGED dloc
    /\ units' = IF program = "app" THEN Started("display") ELSE units
    /\ UNCHANGED <<run, program, e, data, lock, cpc, mpc, sensor_data, dbus, spc, point, stored, exiting>>

\* calc_tdi(data["temperature"], ...): first argument
display_read_t1 ==
    /\ dpc = "read_t1"
    /\ dloc' = [dloc EXCEPT !.t1 = data["temperature"]]
    /\ dpc' = "read_h1"
    /\ UNCHANGED <<run, program, e, data, lock, cpc, mpc, sensor_data, dbus, spc, point, stored, exiting, units>>

\* calc_tdi(..., data["humidity"]): second argument
display_read_h1 ==
    /\ dpc = "read_h1"
    /\ dloc' = [dloc EXCEPT !.h1 = data["humidity"]]
    /\ dpc' = "read_t2"
    /\ UNCHANGED <<run, program, e, data, lock, cpc, mpc, sensor_data, dbus, spc, point, stored, exiting, units>>

\* {data['temperature']:2.1f} of the f-string
display_read_t2 ==
    /\ dpc = "read_t2"
    /\ dloc' = [dloc EXCEPT !.t2 = data["temperature"]]
    /\ dpc' = "read_h2"
    /\ UNCHANGED <<run, program, e, data, lock, cpc, mpc, sensor_data, dbus, spc, point, stored, exiting, units>>

\* {data['humidity']:2.1f} of the f-string; in src/src/wbroker/app.py the
\* string is complete and handed to display.put
display_read_h2 ==
    /\ dpc = "read_h2"
    /\ LET l == [dloc EXCEPT !.h2 = data["humidity"]]
       IN  IF program = "wbroker"
             THEN /\ dloc' = [l EXCEPT !.text = Line2(l)]
                  /\ dpc' = "put_line2"
             ELSE /\ dloc' = l
                  /\ dpc' = "read_p2"
    /\ UNCHANGED <<run, program, e, data, lock, cpc, mpc, sensor_data, dbus, spc, point, stored, exiting, units>>

\* src/app.py: {data['pressure']:4.0f} of the f-string, then display.put
display_read_p2 ==
    /\ dpc = "read_p2"
    /\ LET l == [dloc EXCEPT !.p2 = data["pressure"]]
       IN  dloc' = [l EXCEPT !.text = AppLine(l)]
    /\ dpc' = "put_line2"
    /\ UNCHANGED <<run, program, e, data, lock, cpc, mpc, sensor_data, dbus, spc, point, stored, exiting, units>>

\* if e.is_set(): break   (src/src/wbroker/app.py only)
display_recheck ==
    /\ dpc = "recheck"
    /\ dpc' = IF e THEN "done" ELSE "sleep"
    /\ units' = IF dpc' \in Terminated THEN Ended("display") ELSE units
    /\ UNCHANGED <<run, program, e, data, lock, cpc, mpc, sensor_data, dloc, dbus, spc, point, stored, exiting>>

\* time.sleep(2) / time.sleep(5) returns
display_sleep ==
    /\ dpc = "sleep"
    /\ dpc' = "loop"
    /\ units' = Started("display")
    /\ UNCHANGED <<run, program, e, data, lock, cpc, mpc, sensor_data, dloc, dbus, spc, point, stored, exiting>>

display_thread ==
    \/ display_acquire
    \/ send_command
    \/ send_data
    \/ display_fault
    \/ display_loop
    \/ display_test_data
    \/ display_read_t1
    \/ display_read_h1
    \/ display_read_t2
    \/ display_read_h2
    \/ display_read_p2
    \/ display_recheck
    \/ display_sleep

----------------------------------------------------------------------------
(* InfluxWriter and send_data_thread *)

\* writer = InfluxWriter()
send_ctor ==
    /\ spc = "ctor"
    /\ spc' = "loop"
    /\ UNCHANGED <<run, program, e, data, lock, cpc, mpc, sensor_data, dpc, dloc, dbus, point, stored, exiting, units>>

\* while not e.is_set()  /  if e.is_set(): break
send_loop ==
    /\ spc = "loop"
    /\ spc' = IF e THEN "done" ELSE "items"
    /\ units' = IF spc' \in Terminated THEN Ended("send") ELSE units
    /\ UNCHANGED <<run, program, e, data, lock, cpc, mpc, sensor_data, dpc, dloc, dbus, point, stored, exiting>>

\* InfluxWriter.write: p = Point(point); one turn of
\* for k, v in values.items(): p.field(k, v)
\* (the loop ends at once on an empty dict and after the last key)
write_field ==
    /\ spc = "items"
    /\ IF data = Empty
         THEN /\ spc' = "write"
              /\ UNCHANGED point
         ELSE LET k == KeyOrder[Cardinality(DOMAIN point) + 1]
              IN  /\ point' = point @@ (k :> data[k])
                  /\ spc' = IF Cardinality(DOMAIN point') = Len(KeyOrder)
                              THEN "write" ELSE "items"
    /\ units' = IF point = Empty THEN Started("send") ELSE units
    /\ UNCHANGED <<run, program, e, data, lock, cpc, mpc, sensor_data, dpc, dloc, dbus, stored, exiting>>

\* self.write_api.write(bucket=self.bucket, record=p) returns
write ==
    /\ spc = "write"
    /\ spc' = IF program = "wbroker" THEN "recheck" ELSE "sleep"
    /\ point' = Empty
    /\ UNCHANGED <<run, program, e, data, lock, cpc, mpc, sensor_data, dpc, dloc, dbus, stored, exiting, units>>

\* self.write_api.write raises: the exception ends send_data_thread
write_fault ==
    /\ spc = "write"
    /\ spc' = "dead"
    /\ point' = Empty
    /\ units' = Ended("send")
    /\ UNCHANGED <<run, program, e, data, lock, cpc, mpc, sensor_data, dpc, dloc, dbus, stored, exiting>>

\* if e.is_set(): break   (src/src/wbroker/app.py only)
send_recheck ==
    /\ spc = "recheck"
    /\ spc' = IF e THEN "done" ELSE "sleep"
    /\ units' = IF spc' \in Terminated THEN Ended("send") ELSE units
    /\ UNCHANGED <<run, program, e, data, lock, cpc, mpc, sensor_data, dpc, dloc, dbus, point, stored, exiting>>

\* time.sleep(10) returns
send_sleep ==
    /\ spc = "sleep"
    /\ spc' = "loop"
    /\ units' = Started("send")
    /\ UNCHANGED <<run, program, e, data, lock, cpc, mpc, sensor_data, dpc, dloc, dbus, point, stored, exiting>>

send_data_thread ==
    \/ send_ctor
    \/ send_loop
    \/ write_field
    \/ write
    \/ write_fault
    \/ send_recheck
    \/ send_sleep

----------------------------------------------------------------------------

Next ==
    \/ control_thread
    \/ signal_sigint_handler
    \/ measurement_thread
    \/ display_thread
    \/ send_data_thread

Spec == Init /\ [][Next]_vars

\* the "signal" runs
FairInit == Init /\ run = "signal"

\* every thread keeps being scheduled; SIGINT is left to the environment
FairSpec ==
    /\ FairInit
    /\ [][Next]_vars
    /\ WF_vars(control_thread)
    /\ WF_vars(measurement_thread)
    /\ WF_vars(display_thread)
    /\ WF_vars(send_data_thread)

----------------------------------------------------------------------------
(* Properties *)

AllTerminated == mpc \in Terminated /\ dpc \in Terminated /\ spc \in Terminated

\* display_thread is inside i2c.write_byte_data of a tick (not of display.setup)
TickSteps == {"first_line", "put_line1", "second_line", "put_line2"}

\* C1: the four values a display tick of src/src/wbroker/app.py puts into a
\* measured line 2 (both arguments of calc_tdi, both printed values) are the
\* fields of one single stored reading.
C1_Line2FromOneReading ==
    (program = "wbroker" /\ dpc = "put_line2" /\ dloc.text # Placeholder)
        => \E r \in stored :
              /\ dloc.t1 = r.temperature
              /\ dloc.h1 = r.humidity
              /\ dloc.t2 = r.temperature
              /\ dloc.h2 = r.humidity

\* C2: a thread that is about to read or write the shared dict holds the lock.
C2_DataAccessUnderLock ==
    program = "wbroker" =>
        /\ mpc = "data_update" => lock = "measurement"
        /\ dpc \in {"test_data", "read_t1", "read_h1", "read_t2", "read_h2"}
              => lock = "display"
        /\ spc = "items" => lock = "send"

\* C3: the fields handed to write_api.write are the content of the store at
\* one instant: nothing, or one stored reading.
C3_PointFromOneReading ==
    (program = "wbroker" /\ spc = "write")
        => (point = Empty \/ \E r \in stored : point = r)

\* C4 as stated: the lock is not held while read_all, write_byte_data or
\* write_api.write is in progress.
C4_NoLockAcrossCapabilityCall ==
    /\ mpc = "read_all" => lock # "measurement"
    /\ dbus => lock # "display"
    /\ spc = "write" => lock # "send"

\* C4 amended: send_data_thread never holds the lock (so not during
\* write_api.write), while read_all and write_byte_data are in progress only
\* with the lock held by the calling thread.
C4_LockAroundBusCallsOnly ==
    /\ lock \in {"free", "measurement", "display"}
    /\ mpc = "read_all" => lock = "measurement"
    /\ dbus => lock = "display"
    /\ lock = "measurement" => mpc \in {"read_all", "data_update"}
    /\ lock = "display" => dbus

\* C4 witness: a display bus write holds the lock, measurement_thread waits
\* for it in measure, and a sink publish is in progress.
C4_Witness ==
    dbus /\ lock = "display" /\ dpc = "put_line2" /\ mpc = "measure" /\ spc = "write"

\* C5: once the SIGINT handler has set e, all three threads terminate and
\* control_thread returns.
C5_ShutdownCompletes == e ~> (AllTerminated /\ cpc = "returned")

\* C5 witness: shutdown finished by cancellation after measured ticks ran.
C5_Witness ==
    e /\ cpc = "returned" /\ mpc = "done" /\ dpc = "done" /\ spc = "done" /\ data # Empty

\* C6: whenever control_thread / main has returned, all three threads are
\* terminated.
C6_JoinDiscipline == cpc = "returned" => AllTerminated

\* C6 witness: the orchestrator has returned after joining one thread ended
\* by a fault and two ended by cancellation.
C6_Witness ==
    cpc = "returned" /\ mpc = "dead" /\ dpc = "done" /\ spc = "done"

\* C7: a fault of read_all ends measurement_thread with the lock released and
\* without touching the store or the other two threads; from then on the
\* thread stays ended, the store never changes and the lock is never held by
\* the ended thread.
C7_SensorFault ==
    [][ /\ (mpc = "read_all" /\ mpc' = "dead")
            => (data' = data /\ stored' = stored /\ lock' = "free"
                /\ dpc' = dpc /\ spc' = spc)
        /\ mpc = "dead"
            => (mpc' = "dead" /\ data' = data /\ stored' = stored
                /\ lock # "measurement" /\ lock' # "measurement")
      ]_vars

\* C7 witness: after a sensor fault that followed a successful update, the
\* display is about to read the store while a publish is in progress.
C7_Witness ==
    mpc = "dead" /\ data # Empty /\ dpc = "read_t1" /\ spc = "write"

\* C8: a fault of a display bus write inside a tick does not end
\* display_thread.
C8_DisplayFaultKeepsThread ==
    [][ (program = "wbroker" /\ dpc \in TickSteps /\ dbus) => dpc' # "dead" ]_vars

\* C9: a fault of write_api.write does not end send_data_thread.
C9_SinkFaultKeepsThread ==
    [][ (program = "wbroker" /\ spc = "write") => spc' # "dead" ]_vars

\* C10: every call of write_api.write carries exactly the fields temperature,
\* humidity and pressure (none is made while the store is empty).
C10_PublishOnlyReadings ==
    spc = "write" => DOMAIN point = {"temperature", "humidity", "pressure"}

\* C11: in src/src/wbroker/app.py the store is empty exactly until the first
\* data.update; while nothing has been stored every line 2 being written is
\* the placeholder, and a lookup data[...] of a tick is made only on a
\* non-empty store.
C11_PlaceholderUntilFirstUpdate ==
    program = "wbroker" =>
        /\ (data = Empty) <=> (stored = {})
        /\ (dpc = "put_line2" /\ stored = {}) => dloc.text = Placeholder
        /\ dpc \in {"read_t1", "read_h1", "read_t2", "read_h2"} => data # Empty

\* C11 witness: the placeholder is being written to line 2 before any update.
C11_Witness ==
    /\ program = "wbroker" /\ stored = {} /\ mpc = "update"
    /\ dpc = "put_line2" /\ dbus /\ dloc.i = 1 /\ dloc.text = Placeholder

\* C15: control_thread returns only after the SIGINT handler has set e.
C15_ReturnOnlyAfterInterrupt == cpc = "returned" => e

\* C16: a sensor read (read_all) and a display bus write (write_byte_data)
\* are never in progress at the same time.
C16_BusMutualExclusion == ~(mpc = "read_all" /\ dbus)

\* C16 witness: the sensor read is in progress while display_thread waits at
\* the first bus write of a tick.
C16_Witness ==
    mpc = "read_all" /\ lock = "measurement" /\ dpc = "first_line" /\ ~dbus

\* C17: the sensor setup of measurement_thread (bme280.setup) is never in
\* progress during a display bus write, and is made with the lock held.
C17_SetupBusMutualExclusion ==
    /\ ~(mpc = "setup" /\ dbus)
    /\ mpc = "setup" => lock = "measurement"

\* the holder of the lock is inside one of its with blocks
HolderInside ==
    /\ lock = "measurement" => mpc \in {"read_all", "data_update"}
    /\ lock = "display" => (dbus /\ dpc \in CommandSteps \cup PutSteps)

\* a thread about to acquire the lock does not hold it
NoSelfAcquire ==
    /\ mpc \in {"measure", "update"} => lock # "measurement"
    /\ (dpc \in CommandSteps \cup PutSteps /\ ~dbus) => lock # "display"

\* C12: the lock is only ever held by a live thread inside a with block, no
\* thread acquires it while holding it, and a held lock is always released
\* again, so no thread waits for a lock that is never freed.
C12_DeadlockFree ==
    /\ [](HolderInside /\ NoSelfAcquire)
    /\ (lock # "free") ~> (lock = "free")

\* C12 witness: display_thread waits for the lock held by the sensor read
\* after send_data_thread was ended by a fault.
C12_Witness ==
    /\ lock = "measurement" /\ mpc = "read_all"
    /\ dpc = "put_line2" /\ ~dbus /\ spc = "dead"

\* display_thread of src/src/wbroker/app.py is writing a measured line 2
MeasuredLine ==
    program = "wbroker" /\ dpc = "put_line2" /\ dloc.text # Placeholder

\* display_thread of src/src/wbroker/app.py is writing the placeholder line 2
PlaceholderLine ==
    program = "wbroker" /\ dpc = "put_line2" /\ dloc.text = Placeholder

\* C18: the dict is empty or has exactly the keys temperature, humidity and
\* pressure; once non-empty it stays non-empty; after a measured line 2 the
\* placeholder is never written again; every lookup finds its key.
C18_StoreShape ==
    /\ [](data = Empty \/ DOMAIN data = {"temperature", "humidity", "pressure"})
    /\ [][data # Empty => data' # Empty]_vars
    /\ [](MeasuredLine => [](~PlaceholderLine))
    /\ [](/\ dpc \in {"read_t1", "read_t2"} => "temperature" \in DOMAIN data
          /\ dpc \in {"read_h1", "read_h2"} => "humidity" \in DOMAIN data
          /\ dpc = "read_p2" => "pressure" \in DOMAIN data)

\* C18 witness: a measured line 2 is being written after the store was
\* replaced by a second, different reading.
C18_Witness ==
    MeasuredLine /\ dbus /\ Cardinality(stored) = 2 /\ data # Empty

\* C19 as stated: in the state after measurement_thread or display_thread
\* has ended, by seeing e set or by a fault inside a locked section, the lock
\* is free.
C19_LockFreeAfterTermination ==
    [][ \/ (mpc # "done" /\ mpc' = "done")
        \/ (mpc = "read_all" /\ mpc' = "dead")
        \/ (dpc # "done" /\ dpc' = "done")
        \/ (dbus /\ dpc' = "dead")
        => lock' = "free" ]_vars

\* C19 amended: a thread that has ended does not hold the lock, and a fault
\* inside a locked section leaves the lock free.
C19_NoTerminationWithLock ==
    [][ /\ mpc' \in Terminated => lock' # "measurement"
        /\ dpc' \in Terminated => (lock' # "display" /\ ~dbus')
        /\ (mpc = "read_all" /\ mpc' = "dead") => lock' = "free"
        /\ (dbus /\ dpc' = "dead") => lock' = "free"
      ]_vars

\* C19 witness: after measurement_thread was ended by a fault of read_all,
\* display_thread holds the lock for a bus write.
C19_Witness ==
    mpc = "dead" /\ data # Empty /\ lock = "display" /\ dbus /\ dpc = "second_line"

\* C13: e starts unset, never goes back to unset, and changes only in a step
\* of the SIGINT handler, which changes nothing but e and the log; a second
\* invocation leaves e set and is followed by the same complete shutdown.
C13_SignalSetOnce ==
    /\ ~e
    /\ [][ /\ e => e'
           /\ (e' # e \/ exiting' # exiting)
                => /\ e'
                   /\ exiting' = exiting + 1
                   /\ UNCHANGED <<run, program, data, lock, cpc, mpc, sensor_data, dpc,
                                   dloc, dbus, spc, point, stored, units>>
         ]_vars
    /\ (exiting >= 2) ~> (AllTerminated /\ cpc = "returned")

\* C13 witness: the handler ran twice and the shutdown completed with all
\* three threads leaving their loops.
C13_Witness ==
    /\ exiting = 2 /\ e /\ cpc = "returned"
    /\ mpc = "done" /\ dpc = "done" /\ spc = "done"

\* C14: in src/src/wbroker/app.py a thread at its top-of-loop check or at its
\* check before the sleep leaves the loop when e is set, and a running thread
\* has begun at most one tick or sleep since e was set.
C14_CancellationPolling ==
    /\ [](program = "wbroker" => \A t \in Threads : units[t] <= 1)
    /\ [][ (program = "wbroker" /\ e)
            => /\ (mpc \in {"loop", "recheck"} /\ mpc' # mpc) => mpc' = "done"
               /\ (dpc \in {"loop", "recheck"} /\ dpc' # dpc) => dpc' = "done"
               /\ (spc \in {"loop", "recheck"} /\ spc' # spc) => spc' = "done"
         ]_vars

\* C14 witness: after the signal measurement_thread began and finished one
\* tick, display_thread and send_data_thread each ended one sleep, and each
\* is at the check that makes it leave.
C14_Witness ==
    /\ program = "wbroker" /\ e
    /\ mpc = "recheck" /\ units["measurement"] = 1
    /\ dpc = "loop" /\ units["display"] = 1
    /\ spc = "loop" /\ units["send"] = 1

====
